---- MODULE Spec2Model ----
(***************************************************************************)
(* Model of loor_funding.py: the LoorAPI session driver (login,            *)
(* get_loot_balance, fund_show, validate_funding_amounts, fund_all_shows,  *)
(* claim_loot, cleanup) and main.                                          *)
(*                                                                         *)
(* The browser page is the environment.  Every call the code makes on it   *)
(* (goto, wait_for_selector, query_selector_all, click, ...) answers with  *)
(* one of the outcomes that call can have; the answers are the inputs of   *)
(* the actions, drawn with \E.  Logging and debug screenshots change no    *)
(* state of the driver and are left out (debug = False).                   *)
(***************************************************************************)
EXTENDS Integers, Sequences, FiniteSets

VARIABLES
    pc,          \* position of the caller (main, or a session of API calls)
    dryrun,      \* self.dryrun
    claim_only,  \* args.claim_only
    config,      \* self.config["media"]: sequence of [name, type, amounts]
    playwright,  \* self.playwright is set
    browser,     \* self.browser is set
    context,     \* self.context is set
    page,        \* self.page is set
    closes,      \* how often context.close / browser.close / playwright.stop ran
    opens,       \* how often browser.new_context returned a context
    trace,       \* the methods called so far by main and fund_all_shows, in order
    effects,     \* counters of the clicks and of the page.goto calls on a show page
    auth,        \* how the last login() call ended ("none": no call yet)
    cl,          \* the claim_loot call just made: what the page showed, what it did
    va,          \* the last validate_funding_amounts call
    fs,          \* the frame of fund_all_shows' current (or latest) fund_show call
    item,        \* index into config of fund_all_shows' for loop
    exc,         \* exception propagating out of fund_all_shows ("none" if none)
    ncalls,      \* API calls made by a session caller
    home,        \* the home page handed to a stand-alone get_loot_balance call
    balance      \* result of that call

vars == <<pc, dryrun, claim_only, config, playwright, browser, context, page,
          closes, opens, trace, effects, auth, cl, va, fs, item, exc, ncalls, home,
          balance>>

-----------------------------------------------------------------------------
(* Bounds of the model                                                     *)

MaxTargets == 2      \* entries of config["media"]
MaxAmounts == 2      \* amounts per entry
MaxCalls == 2        \* API calls of a session caller
MaxElems == 2        \* elements on a home page, over all selectors
MaxTextLen == 1      \* characters of a generated element text

-----------------------------------------------------------------------------
(* Program constants                                                       *)

valid_amounts == {100, 400, 800}

NumSelectors == 3

\* sys.get_int_max_str_digits(): the longest digit string int() converts
int_max_str_digits == 4300

-----------------------------------------------------------------------------
(* Texts: sequences of characters.  A character is a one-character string  *)
(* when it is printable ASCII, one of "\t", "\n", "\f", "\r" for those      *)
(* control characters, and the name "U+XXXX" of its code point otherwise.  *)

\* the characters int() reads as the decimal digit v, at index v + 1
DecimalDigitsOf == <<
    {"0", "U+0660", "U+06F0", "U+07C0", "U+0966", "U+09E6", "U+0A66",
     "U+0AE6", "U+0B66", "U+0BE6", "U+0C66", "U+0CE6", "U+0D66", "U+0DE6",
     "U+0E50", "U+0ED0", "U+0F20", "U+1040", "U+1090", "U+17E0", "U+1810",
     "U+1946", "U+19D0", "U+1A80", "U+1A90", "U+1B50", "U+1BB0", "U+1C40",
     "U+1C50", "U+A620", "U+A8D0", "U+A900", "U+A9D0", "U+A9F0", "U+AA50",
     "U+ABF0", "U+FF10", "U+104A0", "U+10D30", "U+11066", "U+110F0",
     "U+11136", "U+111D0", "U+112F0", "U+11450", "U+114D0", "U+11650",
     "U+116C0", "U+11730", "U+118E0", "U+11950", "U+11C50", "U+11D50",
     "U+11DA0", "U+16A60", "U+16AC0", "U+16B50", "U+1D7CE", "U+1D7D8",
     "U+1D7E2", "U+1D7EC", "U+1D7F6", "U+1E140", "U+1E2F0", "U+1E950",
     "U+1FBF0"},
    {"1", "U+0661", "U+06F1", "U+07C1", "U+0967", "U+09E7", "U+0A67",
     "U+0AE7", "U+0B67", "U+0BE7", "U+0C67", "U+0CE7", "U+0D67", "U+0DE7",
     "U+0E51", "U+0ED1", "U+0F21", "U+1041", "U+1091", "U+17E1", "U+1811",
     "U+1947", "U+19D1", "U+1A81", "U+1A91", "U+1B51", "U+1BB1", "U+1C41",
     "U+1C51", "U+A621", "U+A8D1", "U+A901", "U+A9D1", "U+A9F1", "U+AA51",
     "U+ABF1", "U+FF11", "U+104A1", "U+10D31", "U+11067", "U+110F1",
     "U+11137", "U+111D1", "U+112F1", "U+11451", "U+114D1", "U+11651",
     "U+116C1", "U+11731", "U+118E1", "U+11951", "U+11C51", "U+11D51",
     "U+11DA1", "U+16A61", "U+16AC1", "U+16B51", "U+1D7CF", "U+1D7D9",
     "U+1D7E3", "U+1D7ED", "U+1D7F7", "U+1E141", "U+1E2F1", "U+1E951",
     "U+1FBF1"},
    {"2", "U+0662", "U+06F2", "U+07C2", "U+0968", "U+09E8", "U+0A68",
     "U+0AE8", "U+0B68", "U+0BE8", "U+0C68", "U+0CE8", "U+0D68", "U+0DE8",
     "U+0E52", "U+0ED2", "U+0F22", "U+1042", "U+1092", "U+17E2", "U+1812",
     "U+1948", "U+19D2", "U+1A82", "U+1A92", "U+1B52", "U+1BB2", "U+1C42",
     "U+1C52", "U+A622", "U+A8D2", "U+A902", "U+A9D2", "U+A9F2", "U+AA52",
     "U+ABF2", "U+FF12", "U+104A2", "U+10D32", "U+11068", "U+110F2",
     "U+11138", "U+111D2", "U+112F2", "U+11452", "U+114D2", "U+11652",
     "U+116C2", "U+11732", "U+118E2", "U+11952", "U+11C52", "U+11D52",
     "U+11DA2", "U+16A62", "U+16AC2", "U+16B52", "U+1D7D0", "U+1D7DA",
     "U+1D7E4", "U+1D7EE", "U+1D7F8", "U+1E142", "U+1E2F2", "U+1E952",
     "U+1FBF2"},
    {"3", "U+0663", "U+06F3", "U+07C3", "U+0969", "U+09E9", "U+0A69",
     "U+0AE9", "U+0B69", "U+0BE9", "U+0C69", "U+0CE9", "U+0D69", "U+0DE9",
     "U+0E53", "U+0ED3", "U+0F23", "U+1043", "U+1093", "U+17E3", "U+1813",
     "U+1949", "U+19D3", "U+1A83", "U+1A93", "U+1B53", "U+1BB3", "U+1C43",
     "U+1C53", "U+A623", "U+A8D3", "U+A903", "U+A9D3", "U+A9F3", "U+AA53",
     "U+ABF3", "U+FF13", "U+104A3", "U+10D33", "U+11069", "U+110F3",
     "U+11139", "U+111D3", "U+112F3", "U+11453", "U+114D3", "U+11653",
     "U+116C3", "U+11733", "U+118E3", "U+11953", "U+11C53", "U+11D53",
     "U+11DA3", "U+16A63", "U+16AC3", "U+16B53", "U+1D7D1", "U+1D7DB",
     "U+1D7E5", "U+1D7EF", "U+1D7F9", "U+1E143", "U+1E2F3", "U+1E953",
     "U+1FBF3"},
    {"4", "U+0664", "U+06F4", "U+07C4", "U+096A", "U+09EA", "U+0A6A",
     "U+0AEA", "U+0B6A", "U+0BEA", "U+0C6A", "U+0CEA", "U+0D6A", "U+0DEA",
     "U+0E54", "U+0ED4", "U+0F24", "U+1044", "U+1094", "U+17E4", "U+1814",
     "U+194A", "U+19D4", "U+1A84", "U+1A94", "U+1B54", "U+1BB4", "U+1C44",
     "U+1C54", "U+A624", "U+A8D4", "U+A904", "U+A9D4", "U+A9F4", "U+AA54",
     "U+ABF4", "U+FF14", "U+104A4", "U+10D34", "U+1106A", "U+110F4",
     "U+1113A", "U+111D4", "U+112F4", "U+11454", "U+114D4", "U+11654",
     "U+116C4", "U+11734", "U+118E4", "U+11954", "U+11C54", "U+11D54",
     "U+11DA4", "U+16A64", "U+16AC4", "U+16B54", "U+1D7D2", "U+1D7DC",
     "U+1D7E6", "U+1D7F0", "U+1D7FA", "U+1E144", "U+1E2F4", "U+1E954",
     "U+1FBF4"},
    {"5", "U+0665", "U+06F5", "U+07C5", "U+096B", "U+09EB", "U+0A6B",
     "U+0AEB", "U+0B6B", "U+0BEB", "U+0C6B", "U+0CEB", "U+0D6B", "U+0DEB",
     "U+0E55", "U+0ED5", "U+0F25", "U+1045", "U+1095", "U+17E5", "U+1815",
     "U+194B", "U+19D5", "U+1A85", "U+1A95", "U+1B55", "U+1BB5", "U+1C45",
     "U+1C55", "U+A625", "U+A8D5", "U+A905", "U+A9D5", "U+A9F5", "U+AA55",
     "U+ABF5", "U+FF15", "U+104A5", "U+10D35", "U+1106B", "U+110F5",
     "U+1113B", "U+111D5", "U+112F5", "U+11455", "U+114D5", "U+11655",
     "U+116C5", "U+11735", "U+118E5", "U+11955", "U+11C55", "U+11D55",
     "U+11DA5", "U+16A65", "U+16AC5", "U+16B55", "U+1D7D3", "U+1D7DD",
     "U+1D7E7", "U+1D7F1", "U+1D7FB", "U+1E145", "U+1E2F5", "U+1E955",
     "U+1FBF5"},
    {"6", "U+0666", "U+06F6", "U+07C6", "U+096C", "U+09EC", "U+0A6C",
     "U+0AEC", "U+0B6C", "U+0BEC", "U+0C6C", "U+0CEC", "U+0D6C", "U+0DEC",
     "U+0E56", "U+0ED6", "U+0F26", "U+1046", "U+1096", "U+17E6", "U+1816",
     "U+194C", "U+19D6", "U+1A86", "U+1A96", "U+1B56", "U+1BB6", "U+1C46",
     "U+1C56", "U+A626", "U+A8D6", "U+A906", "U+A9D6", "U+A9F6", "U+AA56",
     "U+ABF6", "U+FF16", "U+104A6", "U+10D36", "U+1106C", "U+110F6",
     "U+1113C", "U+111D6", "U+112F6", "U+11456", "U+114D6", "U+11656",
     "U+116C6", "U+11736", "U+118E6", "U+11956", "U+11C56", "U+11D56",
     "U+11DA6", "U+16A66", "U+16AC6", "U+16B56", "U+1D7D4", "U+1D7DE",
     "U+1D7E8", "U+1D7F2", "U+1D7FC", "U+1E146", "U+1E2F6", "U+1E956",
     "U+1FBF6"},
    {"7", "U+0667", "U+06F7", "U+07C7", "U+096D", "U+09ED", "U+0A6D",
     "U+0AED", "U+0B6D", "U+0BED", "U+0C6D", "U+0CED", "U+0D6D", "U+0DED",
     "U+0E57", "U+0ED7", "U+0F27", "U+1047", "U+1097", "U+17E7", "U+1817",
     "U+194D", "U+19D7", "U+1A87", "U+1A97", "U+1B57", "U+1BB7", "U+1C47",
     "U+1C57", "U+A627", "U+A8D7", "U+A907", "U+A9D7", "U+A9F7", "U+AA57",
     "U+ABF7", "U+FF17", "U+104A7", "U+10D37", "U+1106D", "U+110F7",
     "U+1113D", "U+111D7", "U+112F7", "U+11457", "U+114D7", "U+11657",
     "U+116C7", "U+11737", "U+118E7", "U+11957", "U+11C57", "U+11D57",
     "U+11DA7", "U+16A67", "U+16AC7", "U+16B57", "U+1D7D5", "U+1D7DF",
     "U+1D7E9", "U+1D7F3", "U+1D7FD", "U+1E147", "U+1E2F7", "U+1E957",
     "U+1FBF7"},
    {"8", "U+0668", "U+06F8", "U+07C8", "U+096E", "U+09EE", "U+0A6E",
     "U+0AEE", "U+0B6E", "U+0BEE", "U+0C6E", "U+0CEE", "U+0D6E", "U+0DEE",
     "U+0E58", "U+0ED8", "U+0F28", "U+1048", "U+1098", "U+17E8", "U+1818",
     "U+194E", "U+19D8", "U+1A88", "U+1A98", "U+1B58", "U+1BB8", "U+1C48",
     "U+1C58", "U+A628", "U+A8D8", "U+A908", "U+A9D8", "U+A9F8", "U+AA58",
     "U+ABF8", "U+FF18", "U+104A8", "U+10D38", "U+1106E", "U+110F8",
     "U+1113E", "U+111D8", "U+112F8", "U+11458", "U+114D8", "U+11658",
     "U+116C8", "U+11738", "U+118E8", "U+11958", "U+11C58", "U+11D58",
     "U+11DA8", "U+16A68", "U+16AC8", "U+16B58", "U+1D7D6", "U+1D7E0",
     "U+1D7EA", "U+1D7F4", "U+1D7FE", "U+1E148", "U+1E2F8", "U+1E958",
     "U+1FBF8"},
    {"9", "U+0669", "U+06F9", "U+07C9", "U+096F", "U+09EF", "U+0A6F",
     "U+0AEF", "U+0B6F", "U+0BEF", "U+0C6F", "U+0CEF", "U+0D6F", "U+0DEF",
     "U+0E59", "U+0ED9", "U+0F29", "U+1049", "U+1099", "U+17E9", "U+1819",
     "U+194F", "U+19D9", "U+1A89", "U+1A99", "U+1B59", "U+1BB9", "U+1C49",
     "U+1C59", "U+A629", "U+A8D9", "U+A909", "U+A9D9", "U+A9F9", "U+AA59",
     "U+ABF9", "U+FF19", "U+104A9", "U+10D39", "U+1106F", "U+110F9",
     "U+1113F", "U+111D9", "U+112F9", "U+11459", "U+114D9", "U+11659",
     "U+116C9", "U+11739", "U+118E9", "U+11959", "U+11C59", "U+11D59",
     "U+11DA9", "U+16A69", "U+16AC9", "U+16B59", "U+1D7D7", "U+1D7E1",
     "U+1D7EB", "U+1D7F5", "U+1D7FF", "U+1E149", "U+1E2F9", "U+1E959",
     "U+1FBF9"} >>

\* str.isdecimal(): the digits int() accepts
DecimalDigits == UNION {DecimalDigitsOf[v + 1] : v \in 0..9}

\* the characters str.isdigit() accepts and int() rejects
OtherDigits ==
    {"U+00B2", "U+00B3", "U+00B9", "U+1369", "U+136A", "U+136B", "U+136C",
     "U+136D", "U+136E", "U+136F", "U+1370", "U+1371", "U+19DA", "U+2070",
     "U+2074", "U+2075", "U+2076", "U+2077", "U+2078", "U+2079", "U+2080",
     "U+2081", "U+2082", "U+2083", "U+2084", "U+2085", "U+2086", "U+2087",
     "U+2088", "U+2089", "U+2460", "U+2461", "U+2462", "U+2463", "U+2464",
     "U+2465", "U+2466", "U+2467", "U+2468", "U+2474", "U+2475", "U+2476",
     "U+2477", "U+2478", "U+2479", "U+247A", "U+247B", "U+247C", "U+2488",
     "U+2489", "U+248A", "U+248B", "U+248C", "U+248D", "U+248E", "U+248F",
     "U+2490", "U+24EA", "U+24F5", "U+24F6", "U+24F7", "U+24F8", "U+24F9",
     "U+24FA", "U+24FB", "U+24FC", "U+24FD", "U+24FF", "U+2776", "U+2777",
     "U+2778", "U+2779", "U+277A", "U+277B", "U+277C", "U+277D", "U+277E",
     "U+2780", "U+2781", "U+2782", "U+2783", "U+2784", "U+2785", "U+2786",
     "U+2787", "U+2788", "U+278A", "U+278B", "U+278C", "U+278D", "U+278E",
     "U+278F", "U+2790", "U+2791", "U+2792", "U+10A40", "U+10A41",
     "U+10A42", "U+10A43", "U+10E60", "U+10E61", "U+10E62", "U+10E63",
     "U+10E64", "U+10E65", "U+10E66", "U+10E67", "U+10E68", "U+11052",
     "U+11053", "U+11054", "U+11055", "U+11056", "U+11057", "U+11058",
     "U+11059", "U+1105A", "U+1F100", "U+1F101", "U+1F102", "U+1F103",
     "U+1F104", "U+1F105", "U+1F106", "U+1F107", "U+1F108", "U+1F109",
     "U+1F10A"}

\* str.isdigit()
Digits == DecimalDigits \cup OtherDigits

isdigit(c) == c \in Digits

\* the value int() gives a decimal digit
DigitValue(c) == CHOOSE v \in 0..9 : c \in DecimalDigitsOf[v + 1]

\* str.isspace(): the characters str.strip() removes
Whitespace ==
    {" ", "\t", "\n", "U+000B", "\f", "\r", "U+001C", "U+001D", "U+001E",
          "U+001F", "U+0085", "U+00A0", "U+1680", "U+2000", "U+2001",
          "U+2002", "U+2003", "U+2004", "U+2005", "U+2006", "U+2007",
          "U+2008", "U+2009", "U+200A", "U+2028", "U+2029", "U+202F",
          "U+205F", "U+3000"}

\* str.strip(): leading and trailing white space removed
RECURSIVE lstrip(_)
lstrip(t) == IF t # <<>> /\ Head(t) \in Whitespace THEN lstrip(Tail(t)) ELSE t

RECURSIVE rstrip(_)
rstrip(t) ==
    IF t # <<>> /\ t[Len(t)] \in Whitespace
    THEN rstrip(SubSeq(t, 1, Len(t) - 1))
    ELSE t

strip(t) == rstrip(lstrip(t))

\* any(c.isdigit() for c in text)
any_isdigit(t) == \E i \in 1..Len(t) : isdigit(t[i])

\* "".join(c for c in balance_text if c.isdigit())
join_digits(t) == SelectSeq(t, isdigit)

\* the number written by a string of decimal digits
RECURSIVE int_value(_)
int_value(s) ==
    IF s = <<>> THEN 0
    ELSE 10 * int_value(SubSeq(s, 1, Len(s) - 1)) + DigitValue(s[Len(s)])

\* int(s) for a string of isdigit characters: ValueError when s is empty,
\* holds a character that is not a decimal digit, or is longer than the
\* interpreter's limit for integer string conversion
int(s) ==
    IF \/ s = <<>>
       \/ \E i \in 1..Len(s) : s[i] \notin DecimalDigits
       \/ Len(s) > int_max_str_digits
    THEN [exc |-> "ValueError", value |-> 0]
    ELSE [exc |-> "none", value |-> int_value(s)]

-----------------------------------------------------------------------------
(* The home page: for each of the three selectors, either the query fails  *)
(* or it yields the texts of the matching elements in document order.      *)

T850 == <<"8", "5", "0">>
T1234LOOT == <<"1", ",", "2", "3", "4", " ", "L", "O", "O", "T">>
TLOOT == <<"L", "O", "O", "T">>
T0 == <<" ", "0", " ">>

SampleTexts == {T850, T1234LOOT, TLOOT, T0}

\* "850" between line feeds, an Arabic-Indic three, "5" and a superscript two
TPadded850 == <<"\n", "8", "5", "0", "\n">>
TArabic3 == <<"U+0663">>
T5Squared == <<"5", "U+00B2">>

Alphabet == {"1", ",", "U+00B2", "\n"}

GenTexts == UNION {[1..n -> Alphabet] : n \in 0..MaxTextLen}

\* the element texts of the home pages handed to get_loot_balance alone
BalanceTexts == GenTexts \cup SampleTexts \cup {TPadded850, TArabic3, T5Squared}

Sum3(c) == c[1] + c[2] + c[3]

Layouts(n, failing) ==
    {l \in [counts : [1..NumSelectors -> 0..n], errs : SUBSET failing] :
        /\ Sum3(l.counts) = n
        /\ \A s \in l.errs : l.counts[s] = 0}

Offset(counts, s) == IF s = 1 THEN 0 ELSE IF s = 2 THEN counts[1] ELSE counts[1] + counts[2]

MkSels(flat, l) ==
    [s \in 1..NumSelectors |->
        [err |-> s \in l.errs,
         elems |-> SubSeq(flat, Offset(l.counts, s) + 1,
                          Offset(l.counts, s) + l.counts[s])]]

\* the loaded home pages with at most maxElems elements whose texts are in
\* texts, and where the queries of the selectors in failing may fail
Pages(maxElems, texts, failing) ==
    UNION {{[nav |-> "ok", sels |-> MkSels(flat, l)] :
                flat \in [1..n -> texts], l \in Layouts(n, failing)} :
           n \in 0..maxElems}

NoSels == [s \in 1..NumSelectors |-> [err |-> FALSE, elems |-> <<>>]]

TimeoutPage == [nav |-> "timeout", sels |-> NoSels]

NoPage == [nav |-> "ok", sels |-> NoSels]

\* the home pages answered during a run of main or of a session: one sample
\* element at most, and the first query may fail
HomePages == Pages(1, SampleTexts, {1}) \cup {TimeoutPage}

-----------------------------------------------------------------------------
(* get_loot_balance                                                        *)

NotFound == [found |-> FALSE, text |-> <<>>]

\* for element in elements: first element whose stripped text has a digit
RECURSIVE scan_elements(_, _)
scan_elements(elems, i) ==
    IF i > Len(elems) THEN NotFound
    ELSE IF any_isdigit(strip(elems[i]))
         THEN [found |-> TRUE, text |-> strip(elems[i])]
         ELSE scan_elements(elems, i + 1)

\* for selector in selectors: a failing query is skipped (except: continue)
RECURSIVE scan_selectors(_, _)
scan_selectors(sels, s) ==
    IF s > NumSelectors THEN NotFound
    ELSE IF sels[s].err THEN scan_selectors(sels, s + 1)
    ELSE LET r == scan_elements(sels[s].elems, 1)
         IN  IF r.found THEN r ELSE scan_selectors(sels, s + 1)

\* the result of get_loot_balance on page handle pg and home page h:
\* exc is the exception it raises ("none": it returns value)
get_loot_balance(pg, h) ==
    IF ~pg THEN [exc |-> "AttributeError", value |-> 0]
    ELSE IF h.nav = "timeout" THEN [exc |-> "TimeoutError", value |-> 0]
    ELSE LET r == scan_selectors(h.sels, 1)
         IN  IF ~r.found THEN [exc |-> "ValueError", value |-> 0]
             ELSE int(join_digits(r.text))

-----------------------------------------------------------------------------
(* Configuration (config.yml, key media) and the initial driver state      *)

AmountChoices == {100, 400, 800, 50}

AmountLists(maxAmounts) == UNION {[1..n -> AmountChoices] : n \in 0..maxAmounts}

\* the media lists of at most maxTargets entries of at most maxAmounts amounts
Configs(maxTargets, maxAmounts) ==
    UNION {{[i \in 1..n |-> [name |-> i, type |-> "show", amounts |-> al[i]]] :
                al \in [1..n -> AmountLists(maxAmounts)]} : n \in 0..maxTargets}

NoEffects == [submit |-> 0, claim |-> 0, amount |-> 0, confirm |-> 0, show_nav |-> 0]

NoClaim == [status |-> "none", nth |-> 0, live |-> FALSE, login |-> FALSE,
            submit |-> FALSE, marker |-> "unseen", form |-> "unseen",
            clicked |-> FALSE, exc |-> "none"]

NoValidation == [status |-> "none", total |-> 0, read |-> FALSE, balance |-> 0,
                 exc |-> "none"]

NoFundShow == [status |-> "none", item |-> 0, validated |-> FALSE, k |-> 0,
               success_count |-> 0, attempts |-> <<>>, found |-> 0, last |-> "none",
               clicks |-> 0, ret |-> FALSE, exc |-> "none"]

NoBalance == [done |-> FALSE, exc |-> "none", value |-> 0]

NoCloses == [context |-> 0, browser |-> 0, playwright |-> 0]

Call(op, i) == [op |-> op, item |-> i]

-----------------------------------------------------------------------------
(* login                                                                   *)

\* what the browser and the login page can answer
LoginOutcomes(ctx) ==
    IF ctx THEN {"ok", "goto_timeout", "verify_timeout", "verify_none"}
    ELSE {"ok", "new_context_error", "new_page_error", "goto_timeout",
          "verify_timeout", "verify_none"}

\* login() on handles (ctx, pg, brw) with answer o: the handles afterwards,
\* whether a context was created, whether the submit button was clicked, and
\* the exception raised
login(ctx, pg, brw, o) ==
    LET created == ~ctx /\ brw /\ o # "new_context_error"
        ctx1 == ctx \/ created
        pg1 == IF created /\ o # "new_page_error" THEN TRUE ELSE pg
        left(sub, e) == [context |-> ctx1, page |-> pg1,
                         new_context |-> IF created THEN 1 ELSE 0,
                         submit |-> sub, exc |-> e]
    IN  IF ~ctx /\ ~brw THEN left(0, "AttributeError")
        ELSE IF ~ctx /\ o \in {"new_context_error", "new_page_error"}
        THEN left(0, "Error")
        ELSE IF ~pg1 THEN left(0, "AttributeError")
        ELSE IF o = "goto_timeout" THEN left(0, "TimeoutError")
        ELSE IF o \in {"verify_timeout", "verify_none"} THEN left(1, "ValueError")
        ELSE left(1, "none")

-----------------------------------------------------------------------------
(* claim_loot                                                              *)

QuestOutcomes == {"ok", "timeout"}
MarkerOutcomes == {"found", "timeout", "none"}
ClaimOutcomes == {"ok", "click_timeout", "load_timeout"}

\* if not self.context or not self.page
need_login(ctx, pg) == ~ctx \/ ~pg

\* mutant: the "Already claimed" marker is not honoured
already_claimed_mutant(m) == FALSE

\* claimed_text is truthy: the wait returned an element (a timeout is swallowed)
already_claimed(m) == m = "found"

\* claim_loot() with the page's answers: lo (login), q (quests page load),
\* m (wait for "Already claimed"), f (the claim form exists), c (click and
\* the load after it), h (the home page of the balance read)
claim_loot(ctx, pg, brw, lo, q, m, f, c, h) ==
    LET nl == need_login(ctx, pg)
        L == IF nl THEN login(ctx, pg, brw, lo)
             ELSE [context |-> ctx, page |-> pg, new_context |-> 0,
                   submit |-> 0, exc |-> "none"]
        base == [context |-> L.context, page |-> L.page,
                 new_context |-> L.new_context, submit |-> L.submit,
                 claim |-> 0,
                 auth |-> IF nl THEN L.exc ELSE "kept",
                 calls |-> <<Call("claim_loot", 0)>> \o
                           (IF nl THEN <<Call("login", 0)>> ELSE <<>>),
                 cl |-> [NoClaim EXCEPT !.live = ctx /\ pg, !.login = nl,
                                        !.submit = L.submit > 0]]
        raised(b, e) == [b EXCEPT !.cl.status = "raised", !.cl.exc = e]
        returned(b) == [b EXCEPT !.cl.status = "returned"]
        seen == [base EXCEPT !.cl.marker = IF m = "found" THEN "shown" ELSE "absent"]
        formed == [seen EXCEPT !.cl.form = IF f THEN "yes" ELSE "no"]
        clicked == [formed EXCEPT !.claim = 1, !.cl.clicked = TRUE]
        B == get_loot_balance(L.page, h)
    IN  IF L.exc # "none" THEN raised(base, L.exc)
        ELSE IF ~L.page THEN raised(base, "AttributeError")
        ELSE IF q = "timeout" THEN raised(base, "TimeoutError")
        ELSE IF already_claimed(m) THEN returned(seen)
        ELSE IF ~f THEN returned(formed)
        ELSE IF c = "click_timeout" THEN raised(formed, "TimeoutError")
        ELSE IF c = "load_timeout" THEN raised(clicked, "TimeoutError")
        ELSE IF B.exc # "none"
             THEN raised(clicked, B.exc)
             ELSE returned(clicked)

\* the state change of one claim_loot call; the caller sets pc
\* (an answer is drawn only where the call that it answers is made)
ClaimLootCall ==
    \E lo \in LoginOutcomes(context) :
    \E q \in (IF lo = "ok" THEN QuestOutcomes ELSE {"ok"}) :
    \E m \in (IF lo = "ok" /\ q = "ok" THEN MarkerOutcomes ELSE {"timeout"}) :
    \E f \in (IF lo = "ok" /\ q = "ok" THEN BOOLEAN ELSE {FALSE}) :
    \E c \in (IF f THEN ClaimOutcomes ELSE {"ok"}) :
    \E h \in (IF f /\ c = "ok" THEN HomePages ELSE {NoPage}) :
        LET r == claim_loot(context, page, browser, lo, q, m, f, c, h)
        IN  /\ context' = r.context
            /\ page' = r.page
            /\ opens' = opens + r.new_context
            /\ trace' = trace \o r.calls
            /\ effects' = [effects EXCEPT !.submit = @ + r.submit, !.claim = @ + r.claim]
            /\ auth' = IF r.auth = "kept" THEN auth
                        ELSE IF r.auth = "none" THEN "ok" ELSE r.auth
            /\ cl' = [r.cl EXCEPT !.nth = cl.nth + 1]

-----------------------------------------------------------------------------
(* validate_funding_amounts                                                *)

RECURSIVE sum(_)
sum(amounts) == IF amounts = <<>> THEN 0 ELSE Head(amounts) + sum(Tail(amounts))

\* total_needed: the sum of item["amounts"] over config["media"]
RECURSIVE total_needed(_)
total_needed(media) ==
    IF media = <<>> THEN 0
    ELSE sum(Head(media).amounts) + total_needed(Tail(media))

\* mutant: the comparison is turned around
insufficient_mutant(current_balance, total) == current_balance > total

\* if current_balance < total_needed: raise ValueError
insufficient(current_balance, total) == current_balance < total

\* validate_funding_amounts() on config media, page handle pg, home page h
validate_funding_amounts(media, pg, h) ==
    LET total == total_needed(media)
        B == get_loot_balance(pg, h)
    IN  IF B.exc # "none"
        THEN [status |-> "failed", total |-> total, read |-> FALSE, balance |-> 0,
              exc |-> B.exc]
        ELSE IF insufficient(B.value, total)
        THEN [status |-> "failed", total |-> total, read |-> TRUE,
              balance |-> B.value, exc |-> "ValueError"]
        ELSE [status |-> "passed", total |-> total, read |-> TRUE,
              balance |-> B.value, exc |-> "none"]

-----------------------------------------------------------------------------
(* fund_show                                                               *)

ShowOutcomes == {"ok", "timeout", "no_buttons"}

AmountOutcomes ==
    {"goto_timeout", "button_timeout", "button_none", "click_timeout",
     "click_load_timeout", "confirm_not_found", "confirm_click_timeout",
     "confirm_load_timeout", "reload_timeout", "ok"}

\* mutant: every amount passes the validation
invalid_amounts_mutant(amounts) == <<>>

\* invalid_amounts = [amt for amt in amounts if amt not in valid_amounts]
invalid_amounts(amounts) == SelectSeq(amounts, LAMBDA amt : amt \notin valid_amounts)

\* mutant: the dry-run branch is never taken
simulate_mutant(dry) == FALSE

\* if self.dryrun: log, count a success, continue
simulate(dry) == dry

\* except PlaywrightTimeoutError inside the amount loop
amount_caught(e) == e = "TimeoutError"

\* fund_show up to the amount loop: get_show_id with answer g, then the
\* validation of the amounts
fund_show_enter(i, amounts, pg, g) ==
    LET f0 == [NoFundShow EXCEPT !.status = "running", !.item = i]
        raise(e) == [f0 EXCEPT !.status = "raised", !.exc = e]
    IN  IF ~pg THEN [fs |-> raise("AttributeError"), show_nav |-> 0]
        ELSE IF g = "timeout" THEN [fs |-> raise("TimeoutError"), show_nav |-> 1]
        ELSE IF g = "no_buttons" THEN [fs |-> raise("ValueError"), show_nav |-> 1]
        ELSE IF invalid_amounts(amounts) # <<>>
        THEN [fs |-> raise("ValueError"), show_nav |-> 1]
        ELSE [fs |-> [f0 EXCEPT !.validated = TRUE, !.k = 1], show_nav |-> 1]

\* one pass of "for amount in amounts" on frame f: the page answers o, and h
\* is the home page of the balance read after the confirm click
fund_amount(f, dry, pg, o, h) ==
    LET \* what the page answered: last is the answer, found counts the amounts
        \* whose page loaded and whose funding button was found
        f1 == [f EXCEPT !.attempts = Append(@, f.k), !.last = o,
                        !.found = @ + (IF o \in {"goto_timeout", "button_timeout",
                                                 "button_none"} THEN 0 ELSE 1)]
        \* page.goto(project_url) is called whenever there is a page
        nav == IF pg THEN 1 ELSE 0
        \* the exception e leaves the try block after na + nc clicks
        leave(e, na, nc) ==
            [fs |-> IF amount_caught(e)
                    THEN [f1 EXCEPT !.k = @ + 1, !.clicks = @ + na + nc]
                    ELSE [f1 EXCEPT !.status = "raised", !.exc = e,
                                    !.clicks = @ + na + nc],
             show_nav |-> nav, amount |-> na, confirm |-> nc]
        success(na, nc) ==
            [fs |-> [f1 EXCEPT !.k = @ + 1, !.success_count = @ + 1,
                               !.clicks = @ + na + nc],
             show_nav |-> nav, amount |-> na, confirm |-> nc]
        B == get_loot_balance(pg, h)
    IN  IF ~pg THEN leave("AttributeError", 0, 0)
        ELSE IF o = "goto_timeout" THEN leave("TimeoutError", 0, 0)
        ELSE IF o = "button_timeout" THEN leave("TimeoutError", 0, 0)
        ELSE IF o = "button_none" THEN leave("ValueError", 0, 0)
        ELSE IF simulate(dry) THEN success(0, 0)
        ELSE IF o = "click_timeout" THEN leave("TimeoutError", 0, 0)
        ELSE IF o = "click_load_timeout" THEN leave("TimeoutError", 1, 0)
        ELSE IF o = "confirm_not_found" THEN leave("ValueError", 1, 0)
        ELSE IF o = "confirm_click_timeout" THEN leave("TimeoutError", 1, 0)
        ELSE IF o = "confirm_load_timeout" THEN leave("TimeoutError", 1, 1)
        ELSE IF o = "reload_timeout" THEN leave("TimeoutError", 1, 1)
        ELSE IF B.exc # "none"
             THEN leave(B.exc, 1, 1)
             ELSE success(1, 1)

\* mutant: an empty success count is reported as a success too
fund_show_return_mutant(f) ==
    [f EXCEPT !.status = "returned", !.ret = f.success_count >= 0]

\* return success_count > 0
fund_show_return(f) ==
    [f EXCEPT !.status = "returned", !.ret = f.success_count > 0]

-----------------------------------------------------------------------------
(* fund_all_shows                                                          *)

\* mutant: the loop's handler lets a ValueError through
loop_caught_mutant(e) == e # "ValueError"

\* except Exception inside "for item in self.config['media']"
loop_caught(e) == TRUE

\* where the for loop stands once item i is due
LoopPc(i) == IF i > Len(config) THEN "finally" ELSE "fund_loop"

\* fund_all_shows: validate_funding_amounts; a failure leaves through finally
FundAllValidate ==
    /\ pc = "fund_all"
    /\ \E h \in HomePages :
         LET v == validate_funding_amounts(config, page, h)
         IN  /\ va' = v
             /\ exc' = v.exc
             /\ pc' = IF v.status = "passed" THEN LoopPc(1) ELSE "finally"
    /\ item' = 1
    /\ trace' = trace \o <<Call("fund_all_shows", 0),
                           Call("validate_funding_amounts", 0)>>
    /\ fs' = NoFundShow
    /\ cl' = [NoClaim EXCEPT !.nth = cl.nth]
    /\ UNCHANGED <<dryrun, claim_only, config, playwright, browser, context, page,
                   closes, opens, effects, auth, ncalls, home, balance>>

\* the loop calls fund_show(item): get_show_id and the amount validation
FundShowEnter ==
    /\ pc = "fund_loop"
    /\ item <= Len(config)
    /\ \E g \in ShowOutcomes :
         LET r == fund_show_enter(item, config[item].amounts, page, g)
         IN  /\ fs' = r.fs
             /\ effects' = [effects EXCEPT !.show_nav = @ + r.show_nav]
             /\ IF r.fs.status = "raised"
                THEN IF loop_caught(r.fs.exc)
                     THEN /\ item' = item + 1
                          /\ pc' = LoopPc(item + 1)
                          /\ exc' = exc
                     ELSE /\ item' = item
                          /\ pc' = "finally"
                          /\ exc' = r.fs.exc
                ELSE /\ item' = item
                     /\ pc' = "amounts"
                     /\ exc' = exc
    /\ trace' = trace \o <<Call("fund_show", item), Call("get_show_id", item)>>
    /\ UNCHANGED <<dryrun, claim_only, config, playwright, browser, context, page,
                   closes, opens, auth, cl, va, ncalls, home, balance>>

\* one amount of the running fund_show call
FundAmount ==
    /\ pc = "amounts"
    /\ fs.k <= Len(config[item].amounts)
    /\ \E o \in AmountOutcomes :
       \E h \in (IF o = "ok" THEN HomePages ELSE {NoPage}) :
         LET r == fund_amount(fs, dryrun, page, o, h)
         IN  /\ fs' = r.fs
             /\ effects' = [effects EXCEPT !.show_nav = @ + r.show_nav,
                                           !.amount = @ + r.amount,
                                           !.confirm = @ + r.confirm]
             /\ IF r.fs.status = "raised"
                THEN IF loop_caught(r.fs.exc)
                     THEN /\ item' = item + 1
                          /\ pc' = LoopPc(item + 1)
                          /\ exc' = exc
                     ELSE /\ item' = item
                          /\ pc' = "finally"
                          /\ exc' = r.fs.exc
                ELSE /\ item' = item
                     /\ pc' = "amounts"
                     /\ exc' = exc
    /\ UNCHANGED <<dryrun, claim_only, config, playwright, browser, context, page,
                   closes, opens, trace, auth, cl, va, ncalls, home, balance>>

\* the amount loop is over: fund_show returns and the for loop moves on
FundShowReturn ==
    /\ pc = "amounts"
    /\ fs.k > Len(config[item].amounts)
    /\ fs' = fund_show_return(fs)
    /\ item' = item + 1
    /\ pc' = LoopPc(item + 1)
    /\ UNCHANGED <<dryrun, claim_only, config, playwright, browser, context, page,
                   closes, opens, trace, effects, auth, cl, va, exc, ncalls, home,
                   balance>>

CloseOutcomes == {"ok", "error"}

\* finally: close the context and drop context and page
FundAllFinally ==
    /\ pc = "finally"
    /\ \E c \in (IF context THEN CloseOutcomes ELSE {"ok"}) :
         IF context /\ c = "error"
         THEN /\ closes' = [closes EXCEPT !.context = @ + 1]
              /\ exc' = "Error"
              /\ UNCHANGED <<context, page>>
         ELSE /\ closes' = [closes EXCEPT !.context = @ + (IF context THEN 1 ELSE 0)]
              /\ context' = FALSE
              /\ page' = FALSE
              /\ exc' = exc
    /\ pc' = "fund_all_done"
    /\ fs' = NoFundShow
    /\ UNCHANGED <<dryrun, claim_only, config, playwright, browser, opens, trace,
                   effects, auth, cl, va, item, ncalls, home, balance>>

-----------------------------------------------------------------------------
(* cleanup and __del__                                                     *)

\* cleanup(): every handle that is set is closed (errors swallowed) and unset
cleanup(pw, brw, ctx, cnt) ==
    [playwright |-> FALSE, browser |-> FALSE, context |-> FALSE, page |-> FALSE,
     closes |-> [context |-> cnt.context + (IF ctx THEN 1 ELSE 0),
                 browser |-> cnt.browser + (IF brw THEN 1 ELSE 0),
                 playwright |-> cnt.playwright + (IF pw THEN 1 ELSE 0)]]

Cleaned ==
    LET r == cleanup(playwright, browser, context, closes)
    IN  /\ playwright' = r.playwright
        /\ browser' = r.browser
        /\ context' = r.context
        /\ page' = r.page
        /\ closes' = r.closes

-----------------------------------------------------------------------------
(* main                                                                    *)

ConstructOutcomes == {"ok", "config_error", "launch_error"}

\* mutant: --claim-only is ignored
skip_funding_mutant(co) == FALSE

\* if not args.claim_only: ... fund_all_shows()
skip_funding(co) == co

\* loor = LoorAPI(...): load_config, then _initialize_browser
Construct ==
    /\ pc = "start"
    /\ \E o \in ConstructOutcomes :
         /\ playwright' = (o # "config_error")
         /\ browser' = (o = "ok")
         /\ pc' = IF o = "ok" THEN "claim" ELSE "del"
    /\ trace' = Append(trace, Call("__init__", 0))
    /\ UNCHANGED <<dryrun, claim_only, config, context, page, closes, opens, effects,
                   auth, cl, va, fs, item, exc, ncalls, home, balance>>

\* try: loor.claim_loot() except Exception: log; then the --claim-only test
MainClaimLoot ==
    /\ pc = "claim"
    /\ ClaimLootCall
    /\ pc' = IF skip_funding(claim_only) THEN "cleanup" ELSE "fund_all"
    /\ UNCHANGED <<dryrun, claim_only, config, playwright, browser, closes, va, fs,
                   item, exc, ncalls, home, balance>>

\* after fund_all_shows (returned or raised): log, then finally: loor.cleanup()
MainCleanup ==
    /\ pc \in {"cleanup", "fund_all_done"}
    /\ Cleaned
    /\ pc' = "del"
    /\ trace' = Append(trace, Call("cleanup", 0))
    /\ UNCHANGED <<dryrun, claim_only, config, opens, effects, auth, cl, va, fs,
                   item, exc, ncalls, home, balance>>

\* the object is destroyed: __del__ runs cleanup once more
Del ==
    /\ pc = "del"
    /\ Cleaned
    /\ pc' = "exit"
    /\ trace' = Append(trace, Call("__del__", 0))
    /\ UNCHANGED <<dryrun, claim_only, config, opens, effects, auth, cl, va, fs,
                   item, exc, ncalls, home, balance>>

Init ==
    /\ pc = "start"
    /\ dryrun \in BOOLEAN
    /\ claim_only \in BOOLEAN
    /\ config \in Configs(MaxTargets, MaxAmounts)
    /\ playwright = FALSE
    /\ browser = FALSE
    /\ context = FALSE
    /\ page = FALSE
    /\ closes = NoCloses
    /\ opens = 0
    /\ trace = <<>>
    /\ effects = NoEffects
    /\ auth = "none"
    /\ cl = NoClaim
    /\ va = NoValidation
    /\ fs = NoFundShow
    /\ item = 0
    /\ exc = "none"
    /\ ncalls = 0
    /\ home = NoPage
    /\ balance = NoBalance

Next ==
    \/ Construct
    \/ MainClaimLoot
    \/ FundAllValidate
    \/ FundShowEnter
    \/ FundAmount
    \/ FundShowReturn
    \/ FundAllFinally
    \/ MainCleanup
    \/ Del

Spec == Init /\ [][Next]_vars

-----------------------------------------------------------------------------
(* A session: a caller that holds one LoorAPI object and calls claim_loot  *)
(* and fund_all_shows in any order                                         *)

\* the configurations of a session: one target with one amount at most
SessionConfigs == Configs(1, 1)

SessionClaimLoot ==
    /\ pc = "idle"
    /\ ncalls < MaxCalls
    /\ ClaimLootCall
    /\ ncalls' = ncalls + 1
    /\ pc' = "idle"
    /\ UNCHANGED <<dryrun, claim_only, config, playwright, browser, closes, va, fs,
                   item, exc, home, balance>>

SessionFundAllShows ==
    /\ pc = "idle"
    /\ ncalls < MaxCalls
    /\ ncalls' = ncalls + 1
    /\ pc' = "fund_all"
    /\ UNCHANGED <<dryrun, claim_only, config, playwright, browser, context, page,
                   closes, opens, trace, effects, auth, cl, va, fs, item, exc, home,
                   balance>>

SessionReturn ==
    /\ pc = "fund_all_done"
    /\ pc' = "idle"
    /\ UNCHANGED <<dryrun, claim_only, config, playwright, browser, context, page,
                   closes, opens, trace, effects, auth, cl, va, fs, item, exc, ncalls,
                   home, balance>>

InitSession ==
    /\ pc = "idle"
    /\ dryrun \in BOOLEAN
    /\ claim_only = FALSE
    /\ config \in SessionConfigs
    /\ playwright = TRUE
    /\ browser = TRUE
    /\ context = FALSE
    /\ page = FALSE
    /\ closes = NoCloses
    /\ opens = 0
    /\ trace = <<>>
    /\ effects = NoEffects
    /\ auth = "none"
    /\ cl = NoClaim
    /\ va = NoValidation
    /\ fs = NoFundShow
    /\ item = 0
    /\ exc = "none"
    /\ ncalls = 0
    /\ home = NoPage
    /\ balance = NoBalance

NextSession ==
    \/ SessionClaimLoot
    \/ SessionFundAllShows
    \/ FundAllValidate
    \/ FundShowEnter
    \/ FundAmount
    \/ FundShowReturn
    \/ FundAllFinally
    \/ SessionReturn

SpecSession == InitSession /\ [][NextSession]_vars

-----------------------------------------------------------------------------
(* get_loot_balance alone, on every home page within the bounds: at most   *)
(* MaxElems elements over the three selectors, any query may fail          *)

GetLootBalance ==
    /\ pc = "balance"
    /\ LET B == get_loot_balance(page, home)
       IN  balance' = [done |-> TRUE, exc |-> B.exc, value |-> B.value]
    /\ pc' = "balance_done"
    /\ trace' = Append(trace, Call("get_loot_balance", 0))
    /\ UNCHANGED <<dryrun, claim_only, config, playwright, browser, context, page,
                   closes, opens, effects, auth, cl, va, fs, item, exc, ncalls, home>>

InitBalance ==
    /\ pc = "balance"
    /\ dryrun = FALSE
    /\ claim_only = FALSE
    /\ config = <<>>
    /\ playwright = TRUE
    /\ browser = TRUE
    /\ context = TRUE
    /\ page = TRUE
    /\ closes = NoCloses
    /\ opens = 0
    /\ trace = <<>>
    /\ effects = NoEffects
    /\ auth = "none"
    /\ cl = NoClaim
    /\ va = NoValidation
    /\ fs = NoFundShow
    /\ item = 0
    /\ exc = "none"
    /\ ncalls = 0
    /\ \E n \in 0..MaxElems :
       \E flat \in [1..n -> BalanceTexts] :
       \E l \in Layouts(n, 1..NumSelectors) :
       \E nav \in (IF n = 0 THEN {"ok", "timeout"} ELSE {"ok"}) :
           home = [nav |-> nav, sels |-> MkSels(flat, l)]
    /\ balance = NoBalance

NextBalance == GetLootBalance

SpecBalance == InitBalance /\ [][NextBalance]_vars

-----------------------------------------------------------------------------
(* Properties                                                              *)

Called(op) == \E i \in 1..Len(trace) : trace[i].op = op

FundShowCalls == SelectSeq(trace, LAMBDA c : c.op = "fund_show")

FundingOps == {"fund_all_shows", "validate_funding_amounts", "fund_show", "get_show_id"}

\* the amounts requested of the fund_show call of frame fs
Requested == IF fs.item \in 1..Len(config) THEN config[fs.item].amounts ELSE <<>>

HasInvalid(amounts) ==
    \E k \in 1..Len(amounts) : amounts[k] # 100 /\ amounts[k] # 400 /\ amounts[k] # 800

\* C1: when the balance that get_loot_balance read is below the sum of all
\* configured amounts, fund_all_shows raises and no fund_show call, no
\* show-page navigation and no funding or confirm click happens.
C1_RefusesWhenInsufficient ==
    (va.read /\ va.balance < total_needed(config)) =>
        /\ va.status = "failed"
        /\ exc # "none"
        /\ ~Called("fund_show")
        /\ ~Called("get_show_id")
        /\ pc \notin {"fund_loop", "amounts"}
        /\ fs = NoFundShow
        /\ effects.show_nav = 0
        /\ effects.amount = 0
        /\ effects.confirm = 0

C1_Witness ==
    /\ pc = "fund_all_done"
    /\ Len(config) = 2
    /\ va.read
    /\ va.balance = 850
    /\ va.total = 900
    /\ exc = "ValueError"

\* C2 as claimed: in dry-run mode a run of main clicks no funding-amount
\* button, no confirm button and no claim button.
C2_DryRunNoClickAtAll ==
    dryrun => effects.amount = 0 /\ effects.confirm = 0 /\ effects.claim = 0

\* C2 as amended: in dry-run mode a run of main clicks no funding-amount button
\* and no confirm button, whatever the pages answer (claim_loot does not read
\* dryrun, so the claim button can still be clicked).
C2_DryRunNoFundingClick ==
    dryrun => effects.amount = 0 /\ effects.confirm = 0 /\ fs.clicks = 0

C2_Witness ==
    /\ dryrun
    /\ pc = "exit"
    /\ effects.claim = 1
    /\ effects.show_nav = 4
    /\ Len(FundShowCalls) = 2

\* C3 as claimed: in dry-run mode a fund_show call that reached its amount loop
\* with at least one amount clicks nothing, counts every requested amount as a
\* success and returns true.  (Stated for waits that return an element or time
\* out: the answer "button_none" is left aside.)
C3_DryRunAllSucceed ==
    (dryrun /\ fs.validated /\ fs.status \in {"returned", "raised"}
            /\ Len(Requested) > 0 /\ fs.last # "button_none") =>
        /\ fs.clicks = 0
        /\ fs.status = "returned"
        /\ fs.success_count = Len(Requested)
        /\ fs.ret

\* C3 as amended: in dry-run mode fund_show clicks no amount or confirm button;
\* it counts as a success exactly the amounts whose page loaded and whose funding
\* button was found, and when it returns it returns true iff it counted one.
C3_DryRunCountsFound ==
    (dryrun /\ fs.status # "none") =>
        /\ fs.clicks = 0
        /\ fs.success_count = fs.found
        /\ fs.status = "returned" => (fs.ret <=> fs.found > 0)

C3_Witness ==
    /\ dryrun
    /\ fs.status = "returned"
    /\ Requested = <<100, 400>>
    /\ fs.attempts = <<1, 2>>
    /\ fs.found = 1
    /\ fs.last = "button_timeout"
    /\ fs.ret

\* C4: whatever fails while one amount is processed, the remaining amounts of
\* the same fund_show call are still attempted: a call that reached its amount
\* loop ends only after every amount has been attempted.  (Stated for the
\* failures the page can produce with a wait that returns an element or times
\* out: the answer "button_none" is left aside.)
C4_RemainingAmountsAttempted ==
    (fs.validated /\ fs.status \in {"returned", "raised"} /\ fs.last # "button_none") =>
        Len(fs.attempts) = Len(Requested)

\* C5: once validation has passed, fund_show is called exactly once for every
\* configured target, in configuration order, whatever any earlier call raised:
\* the calls made so far are those for targets 1, 2, ..., the loop stands at the
\* target after the last call, and when fund_all_shows is over there is one per
\* target.
C5_EveryTargetOnceInOrder ==
    /\ \A i \in 1..Len(FundShowCalls) : FundShowCalls[i].item = i
    /\ Len(FundShowCalls) <= Len(config)
    /\ pc = "fund_loop" => item = Len(FundShowCalls) + 1
    /\ (va.status = "passed" /\ pc \in {"finally", "fund_all_done", "del", "exit"}) =>
           Len(FundShowCalls) = Len(config)

C5_Witness ==
    /\ pc = "fund_loop"
    /\ Len(config) = 2
    /\ item = 2
    /\ fs.item = 1
    /\ fs.status = "raised"
    /\ fs.exc = "ValueError"

\* C6: authentication and balance-read errors abort the run: when login failed
\* inside claim_loot the run clicks no funding or confirm button afterwards, and
\* when get_loot_balance failed during validation no fund_show call follows.
\* (The claim says more for a failed login: no validation and no fund_show call
\* either.  It implies this statement.)
C6_AuthOrBalanceFailureAborts ==
    /\ (auth \notin {"none", "ok"}) =>
           effects.amount = 0 /\ effects.confirm = 0
    /\ (va.status = "failed" /\ ~va.read) =>
           ~Called("fund_show") /\ effects.show_nav = 0

\* C7: when the amounts passed to fund_show contain a value outside
\* {100, 400, 800}, the call raises and clicks no funding or confirm button and
\* attempts no amount, the valid ones included.
C7_InvalidAmountRejected ==
    (fs.status # "none" /\ HasInvalid(Requested)) =>
        /\ fs.status = "raised"
        /\ fs.exc # "none"
        /\ ~fs.validated
        /\ fs.attempts = <<>>
        /\ fs.clicks = 0
        /\ pc # "amounts"

C7_Witness ==
    /\ fs.status = "raised"
    /\ fs.exc = "ValueError"
    /\ Requested = <<100, 50>>
    /\ effects.show_nav = 1
    /\ ~dryrun

\* C8: a second (or later) claim_loot call in a session whose context and page
\* are still set, and which sees the "Already claimed" marker, clicks nothing,
\* does not log in and returns without error; and in any call the claim button
\* is clicked only if the page showed no marker and showed a claim form.
C8_ClaimIdempotent ==
    /\ (cl.status # "none" /\ cl.nth >= 2 /\ cl.live /\ cl.marker = "shown") =>
           /\ ~cl.login
           /\ ~cl.submit
           /\ ~cl.clicked
           /\ cl.status = "returned"
           /\ cl.exc = "none"
    /\ cl.clicked => (cl.marker = "absent" /\ cl.form = "yes")
    /\ effects.claim <= cl.nth

C8_Witness ==
    /\ pc = "idle"
    /\ cl.nth = 2
    /\ cl.live
    /\ cl.marker = "shown"
    /\ cl.status = "returned"
    /\ effects.claim = 1
    /\ effects.submit = 1

\* the texts of all elements, selector by selector, in document order
AllTexts(sels) ==
    (IF sels[1].err THEN <<>> ELSE sels[1].elems) \o
    (IF sels[2].err THEN <<>> ELSE sels[2].elems) \o
    (IF sels[3].err THEN <<>> ELSE sels[3].elems)

RECURSIVE Pow10(_)
Pow10(n) == IF n = 0 THEN 1 ELSE 10 * Pow10(n - 1)

RECURSIVE WeightedSum(_, _)
WeightedSum(ds, i) ==
    IF i > Len(ds) THEN 0
    ELSE DigitValue(ds[i]) * Pow10(Len(ds) - i) + WeightedSum(ds, i + 1)

\* the number whose decimal digits are the digit characters of t, in order
NumberOf(t) == WeightedSum(SelectSeq(t, LAMBDA c : c \in DecimalDigits), 1)

\* C9: on a loaded home page get_loot_balance returns the integer formed by the
\* digit characters, in order, of the text of the first element (selector-list
\* order, then document order) whose text contains a digit, and it raises when
\* no element has such a text.  (A digit is a character that writes one of
\* 0..9, so that the integer is defined.)
C9_BalanceOfFirstDigitText ==
    (balance.done /\ home.nav = "ok") =>
        LET all == AllTexts(home.sels)
            hits == {i \in 1..Len(all) :
                        \E j \in 1..Len(all[i]) : all[i][j] \in DecimalDigits}
        IN  IF hits = {}
            THEN balance.exc # "none"
            ELSE LET first == CHOOSE i \in hits : \A j \in hits : i <= j
                 IN  balance.exc = "none" /\ balance.value = NumberOf(all[first])

\* C10: in every run of main claim_loot is attempted before any funding step;
\* with --claim-only no funding step happens (no validation, no show-page
\* navigation, no funding click); without it fund_all_shows is invoked after
\* the claim attempt.
C10_ClaimFirstThenFunding ==
    /\ \A i \in 1..Len(trace) :
           trace[i].op \in FundingOps =>
               \E j \in 1..(i - 1) : trace[j].op = "claim_loot"
    /\ (effects.show_nav > 0 \/ effects.amount > 0 \/ effects.confirm > 0
          \/ va.status # "none") => Called("claim_loot")
    /\ claim_only =>
           /\ \A i \in 1..Len(trace) : trace[i].op \notin FundingOps
           /\ va.status = "none"
           /\ fs.status = "none"
           /\ effects.show_nav = 0
           /\ effects.amount = 0
           /\ effects.confirm = 0
    /\ (~claim_only /\ Called("claim_loot") /\ pc \notin {"claim", "fund_all"}) =>
           Called("fund_all_shows")

C10_Witness ==
    /\ claim_only
    /\ pc = "exit"
    /\ cl.status = "returned"
    /\ effects.claim = 1
    /\ Len(config) = 2

\* a step that creates a context starts from no held context, and a step that
\* drops the held context has called close() on it
OneContextAtATime ==
    /\ (opens' > opens) => (~context /\ opens' = opens + 1)
    /\ (context /\ ~context') => closes'.context = closes.context + 1

\* fund_all_shows has returned or raised: context and page are unset
UnsetAfterFundAll == (pc = "fund_all_done") => (~context /\ ~page)

\* main's call of cleanup is over: no handle is left and every context that
\* was created, the browser and the playwright handle have been closed
ReleasedWhenMainEnds ==
    Called("cleanup") =>
        /\ ~context /\ ~page /\ ~browser /\ ~playwright
        /\ closes.context >= opens
        /\ closes.browser >= 1
        /\ closes.playwright >= 1

\* nothing is closed twice, whichever of the finally block, cleanup and
\* __del__ ran
ClosedAtMostOnce ==
    /\ closes.context <= opens
    /\ closes.browser <= 1
    /\ closes.playwright <= 1

\* C11: the browser session is torn down on every exit path and at most one
\* context is live at any time: login creates a context only when none is
\* held; once fund_all_shows has returned or raised, context and page are both
\* unset; when main ends, whichever of claim_loot or fund_all_shows failed, the
\* context, the browser and the playwright handle are all released; and each
\* of them is closed at most once across fund_all_shows' finally block,
\* cleanup and __del__.
C11_TornDownOnEveryExitPath ==
    /\ [][OneContextAtATime]_vars
    /\ [](UnsetAfterFundAll /\ ReleasedWhenMainEnds /\ ClosedAtMostOnce)

====
